---- MODULE Spec2Model ----
(***************************************************************************)
(* Filter operator of the ballista physical execution layer                *)
(* (rust/ballista/src/execution/operators/filter.rs).                      *)
(*                                                                         *)
(* A FilterExec node holds one child plan and one predicate AST.  execute  *)
(* compiles the predicate, awaits the child's execute and wraps the        *)
(* child's stream in a FilterIter; FilterIter::next pulls one batch from   *)
(* the child, evaluates the compiled predicate on it and applies the       *)
(* resulting mask to every column with apply_filter.                       *)
(*                                                                         *)
(* The collaborators that filter.rs calls but does not define (the child   *)
(* plan and its stream, compile_expression, Expression::evaluate,          *)
(* ColumnarValue::to_arrow, cast_array!, arrow::compute::filter) are       *)
(* modelled from their contracts.  Where a contract leaves an outcome open *)
(* (to_arrow of a Scalar, the kernel on a mask of another length than the  *)
(* array) the model takes both outcomes, the same one throughout a run.    *)
(***************************************************************************)
EXTENDS Integers, Sequences, FiniteSets, TLC

\* ---------------------------------------------------------------- bounds
MaxRows == 2          \* rows per batch yielded by the child
MaxBatches == 2       \* batches per child stream
NumPartitions == 2    \* partitions of the child plan: indexes 0..NumPartitions-1
ExtraCalls == 2       \* next() calls made beyond the child's batches
MaxRewrites == 2      \* with_new_children calls per run

MaxCalls == MaxBatches + ExtraCalls
Partitions == 0 .. (NumPartitions - 1)
PartIdx == 0 .. NumPartitions        \* NumPartitions itself is out of range

\* ------------------------------------------------------------ value model
\* Result<T>: Ok(v) or Err(kind)
Ok(v) == [tag |-> "Ok", val |-> v]
Err(k) == [tag |-> "Err", kind |-> k]
IsOk(r) == r.tag = "Ok"
IsErr(r) == r.tag = "Err"

\* Option<ColumnarBatch> inside Ok: Some(batch) or None (end of stream)
Some(b) == [opt |-> "Some", batch |-> b]
None == [opt |-> "None"]

\* an arrow array: element type and values (kept per type, so that arrays
\* of different types are comparable)
Array(t, vs) ==
    [type |-> t,
     ints |-> IF t = "int" THEN vs ELSE << >>,
     bools |-> IF t = "bool" THEN vs ELSE << >>]
Vals(a) == IF a.type = "int" THEN a.ints ELSE a.bools

\* ColumnarValue: Columnar(array) or Scalar(value, n); a Scalar holds its
\* value as a one-element array
Columnar(a) == [kind |-> "Columnar", array |-> a]
Scalar(t, v, n) == [kind |-> "Scalar", value |-> Array(t, << v >>), n |-> n]

\* schemas: the one of the wider child plan, and the one of a narrower plan
Field(n, t) == [name |-> n, type |-> t]
ChildSchema == << Field("id", "int"), Field("flag", "bool") >>
FlagSchema == << Field("flag", "bool") >>

\* ColumnarBatch: columns paired with a schema
ColumnarBatch(cols, schema) == [cols |-> cols, schema |-> schema]
num_columns(batch) == Len(batch.cols)
num_rows(batch) == IF Len(batch.cols) = 0 THEN 0 ELSE Len(Vals(batch.cols[1].array))

\* the rows the child's batches are made of: (id, flag)
RowKinds == { <<0, TRUE>>, <<3, FALSE>> }

SeqsUpTo(S, n) == UNION { [1..k -> S] : k \in 0..n }

BatchOfRows(rs) ==
    ColumnarBatch(<< Columnar(Array("int", [i \in 1..Len(rs) |-> rs[i][1]])),
                     Columnar(Array("bool", [i \in 1..Len(rs) |-> rs[i][2]])) >>,
                  ChildSchema)

Batches == { BatchOfRows(rs) : rs \in SeqsUpTo(RowKinds, MaxRows) }

\* ----------------------------------------------- predicate AST (Expr)
\* column n; n > k; k / n > 0; a literal of type t (a boolean as 0 or 1)
Col(n) == [op |-> "col", name |-> n, lit |-> 0, type |-> ""]
Gt(n, k) == [op |-> "gt", name |-> n, lit |-> k, type |-> ""]
DivGt(n, k) == [op |-> "divgt", name |-> n, lit |-> k, type |-> ""]
Lit(t, k) == [op |-> "lit", name |-> "", lit |-> k, type |-> t]
\* two opaque expressions over column n, see evaluate
UdfShort(n) == [op |-> "short", name |-> n, lit |-> 0, type |-> ""]
UdfLong(n) == [op |-> "long", name |-> n, lit |-> 0, type |-> ""]

\* the predicates a FilterExec node is constructed with
Predicates ==
    { Col("flag"), Col("id"), Col("nope"), Gt("id", 2), Gt("flag", 2),
      DivGt("id", 6), Lit("bool", 1), Lit("int", 7), UdfShort("flag"), UdfLong("flag") }

HasField(schema, n) == \E i \in 1..Len(schema) : schema[i].name = n
FieldIndex(schema, n) == CHOOSE i \in 1..Len(schema) : schema[i].name = n
FieldType(schema, n) == schema[FieldIndex(schema, n)].type

\* compile_expression(ast, schema): name resolution and type checking
compile_expression(ast, schema) ==
    IF ast.op = "lit" THEN Ok([ast |-> ast, schema |-> schema])
    ELSE IF ~ HasField(schema, ast.name) THEN Err("compile")
    ELSE IF ast.op \in {"gt", "divgt"} /\ FieldType(schema, ast.name) # "int"
    THEN Err("compile")
    ELSE Ok([ast |-> ast, schema |-> schema])

ButLast(vs) == [i \in 1..(Len(vs) - 1) |-> vs[i]]

\* Expression::evaluate(batch).  A column reference gives the column, a
\* comparison a boolean array with one element per row, a literal a Scalar;
\* k / n fails on a zero divisor.  The two opaque expressions are
\* implementations of Expression that break the shape contract: they give the
\* named boolean column with its last element dropped, or with one appended.
evaluate(expr, batch) ==
    LET ast == expr.ast
        column == batch.cols[FieldIndex(expr.schema, ast.name)].array
        vs == Vals(column)
    IN
    CASE ast.op = "col" -> Ok(Columnar(column))
      [] ast.op = "gt" ->
            Ok(Columnar(Array("bool", [i \in 1..Len(vs) |-> vs[i] > ast.lit])))
      [] ast.op = "divgt" ->
            IF \E i \in 1..Len(vs) : vs[i] = 0 THEN Err("evaluate")
            ELSE Ok(Columnar(Array("bool", [i \in 1..Len(vs) |-> (ast.lit \div vs[i]) > 0])))
      [] ast.op = "lit" ->
            IF ast.type = "bool" THEN Ok(Scalar("bool", ast.lit = 1, num_rows(batch)))
            ELSE Ok(Scalar(ast.type, ast.lit, num_rows(batch)))
      [] ast.op = "short" -> Ok(Columnar(Array("bool", ButLast(vs))))
      [] ast.op = "long" -> Ok(Columnar(Array("bool", Append(vs, TRUE))))

\* ------------------------------------------------- child plan and stream
\* a physical plan as its parent sees it: its schema and its output
\* partitioning, here the number of its partitions
PhysicalPlan(schema, n) == [schema |-> schema, partitioning |-> n]
ChildPlans ==
    { PhysicalPlan(ChildSchema, NumPartitions),
      PhysicalPlan(FlagSchema, NumPartitions - 1) }

\* the batches a stream of the given schema is made of
BatchesOf(schema) ==
    { ColumnarBatch([i \in 1..Len(schema) |->
                        b.cols[FieldIndex(ChildSchema, schema[i].name)]],
                    schema)
      : b \in Batches }

\* a child stream: its schema, the batches it has yielded so far, and whether
\* it is still open, has ended or has failed; both of the latter are for good
ChildStream(schema, yielded, state) ==
    [schema |-> schema, yielded |-> yielded, state |-> state]

\* child.execute(ctx, partition_index): the results the child may give
child_execute(plan, partition_index) ==
    IF partition_index \notin 0 .. (plan.partitioning - 1)
    THEN { Err("partition") }
    ELSE { Err("upstream"), Ok(ChildStream(plan.schema, << >>, "open")) }

\* input.next() on the child stream: the results it may give
child_next(s) ==
    CASE s.state = "ended" -> { Ok(None) }
      [] s.state = "failed" -> { Err("upstream") }
      [] OTHER ->
            { Ok(None), Err("upstream") }
            \cup (IF Len(s.yielded) < MaxBatches
                  THEN { Ok(Some(b)) : b \in BatchesOf(s.schema) } ELSE { })

\* the child stream after its next() returned r
child_after_next(s, r) ==
    IF IsErr(r) THEN ChildStream(s.schema, s.yielded, "failed")
    ELSE IF r.val.opt = "None" THEN ChildStream(s.schema, s.yielded, "ended")
    ELSE ChildStream(s.schema, Append(s.yielded, r.val.batch), s.state)

\* ------------------------------------------------- columnar primitives
\* what the columnar library does where its contract leaves it open, asked
\* of the library the first time it matters and the same from then on:
\* "scalar": does to_arrow broadcast a Scalar (or reject it); "short", "long":
\* does the kernel go on with a mask shorter, longer than the array (or fail)
Questions == { "scalar", "short", "long" }
Question(bitmask, batch) ==
    IF bitmask.kind = "Scalar" THEN "scalar"
    ELSE IF bitmask.array.type # "bool" \/ num_columns(batch) = 0 THEN "none"
    ELSE IF Len(bitmask.array.bools) < num_rows(batch) THEN "short"
    ELSE IF Len(bitmask.array.bools) > num_rows(batch) THEN "long"
    ELSE "none"
Answers(known, q) ==
    IF q = "none" THEN { TRUE }
    ELSE IF known[q] = "open" THEN BOOLEAN
    ELSE { known[q] = "yes" }
Answered(known, q, yes) ==
    IF q = "none" THEN known ELSE [known EXCEPT ![q] = IF yes THEN "yes" ELSE "no"]

\* ColumnarValue::to_arrow: a Columnar value is its array; a Scalar is
\* either broadcast to n elements or rejected
to_arrow(v, scalarOk) ==
    IF v.kind = "Columnar" THEN Ok(v.array)
    ELSE IF scalarOk THEN Ok(Array(v.value.type, [i \in 1..v.n |-> Vals(v.value)[1]]))
    ELSE Err("to_arrow")

\* cast_array!(array, BooleanArray): downcast by element type
cast_array(a) == IF a.type = "bool" THEN Ok(a) ELSE Err("cast")

\* elements of vals[1..n] selected by mask[1..n], in order
RECURSIVE Selected(_, _, _)
Selected(vals, mask, n) ==
    IF n = 0 THEN << >>
    ELSE IF mask[n] THEN Append(Selected(vals, mask, n - 1), vals[n])
    ELSE Selected(vals, mask, n - 1)

PadMask(mask, n) == [i \in 1..n |-> IF i <= Len(mask) THEN mask[i] ELSE FALSE]

\* arrow::compute::filter(array, mask): for equal lengths the selected
\* elements in order; for unequal lengths either an error or the selection
\* by the mask cut or padded with false to the array's length
compute_filter(a, mask, kernelOk) ==
    LET n == Len(Vals(a)) IN
    IF Len(mask.bools) = n
    THEN Ok(Array(a.type, Selected(Vals(a), mask.bools, n)))
    ELSE IF kernelOk
    THEN Ok(Array(a.type, Selected(Vals(a), PadMask(mask.bools, n), n)))
    ELSE Err("kernel")

\* ------------------------------------------------------- apply_filter
\* a variant of the loop that filters the first column only and copies the
\* other columns as they are
RECURSIVE filter_columns_first_only(_, _, _, _, _)
filter_columns_first_only(batch, predicate, n, scalarOk, kernelOk) ==
    IF n = 0 THEN [res |-> Ok(<< >>), kernel |-> << >>]
    ELSE
      LET prev == filter_columns_first_only(batch, predicate, n - 1, scalarOk, kernelOk) IN
      IF IsErr(prev.res) THEN prev
      ELSE
        LET array == to_arrow(batch.cols[n], scalarOk) IN
        IF IsErr(array) THEN [res |-> array, kernel |-> prev.kernel]
        ELSE IF n > 1
        THEN [res |-> Ok(Append(prev.res.val, Columnar(array.val))), kernel |-> prev.kernel]
        ELSE
          LET filtered_array == compute_filter(array.val, predicate, kernelOk)
              made == Append(prev.kernel, << Len(Vals(array.val)), Len(predicate.bools) >>)
          IN IF IsErr(filtered_array) THEN [res |-> filtered_array, kernel |-> made]
             ELSE [res |-> Ok(Append(prev.res.val, Columnar(filtered_array.val))),
                   kernel |-> made]

\* a variant of the loop that keeps the rows where the mask is false
RECURSIVE filter_columns_negated(_, _, _, _, _)
filter_columns_negated(batch, predicate, n, scalarOk, kernelOk) ==
    IF n = 0 THEN [res |-> Ok(<< >>), kernel |-> << >>]
    ELSE
      LET prev == filter_columns_negated(batch, predicate, n - 1, scalarOk, kernelOk) IN
      IF IsErr(prev.res) THEN prev
      ELSE
        LET array == to_arrow(batch.cols[n], scalarOk) IN
        IF IsErr(array) THEN [res |-> array, kernel |-> prev.kernel]
        ELSE
          LET negated == Array("bool", [i \in 1..Len(predicate.bools) |->
                                           ~ predicate.bools[i]])
              filtered_array == compute_filter(array.val, negated, kernelOk)
              made == Append(prev.kernel, << Len(Vals(array.val)), Len(predicate.bools) >>)
          IN IF IsErr(filtered_array) THEN [res |-> filtered_array, kernel |-> made]
             ELSE [res |-> Ok(Append(prev.res.val, Columnar(filtered_array.val))),
                   kernel |-> made]

\* the for loop of apply_filter over columns 1..n: the filtered columns (or
\* the first error) and the kernel calls made, as <<column length, mask length>>
RECURSIVE filter_columns(_, _, _, _, _)
filter_columns(batch, predicate, n, scalarOk, kernelOk) ==
    IF n = 0 THEN [res |-> Ok(<< >>), kernel |-> << >>]
    ELSE
      LET prev == filter_columns(batch, predicate, n - 1, scalarOk, kernelOk) IN
      IF IsErr(prev.res) THEN prev
      ELSE
        LET array == to_arrow(batch.cols[n], scalarOk) IN
        IF IsErr(array) THEN [res |-> array, kernel |-> prev.kernel]
        ELSE
          LET filtered_array == compute_filter(array.val, predicate, kernelOk)
              made == Append(prev.kernel, << Len(Vals(array.val)), Len(predicate.bools) >>)
          IN IF IsErr(filtered_array) THEN [res |-> filtered_array, kernel |-> made]
             ELSE [res |-> Ok(Append(prev.res.val, Columnar(filtered_array.val))),
                   kernel |-> made]

\* a variant of apply_filter that returns the batch as it is when the mask
\* is not a BooleanArray
apply_filter_run_pass_through(batch, bitmask, schema, scalarOk, kernelOk) ==
    LET arrow == to_arrow(bitmask, scalarOk) IN
    IF IsErr(arrow) THEN [res |-> arrow, kernel |-> << >>]
    ELSE
      LET predicate == cast_array(arrow.val) IN
      IF IsErr(predicate)
      THEN [res |-> Ok(ColumnarBatch(batch.cols, schema)), kernel |-> << >>]
      ELSE
        LET filtered_arrays ==
              filter_columns(batch, predicate.val, num_columns(batch), scalarOk, kernelOk)
        IN IF IsErr(filtered_arrays.res) THEN filtered_arrays
           ELSE [res |-> Ok(ColumnarBatch(filtered_arrays.res.val, schema)),
                 kernel |-> filtered_arrays.kernel]

\* a variant of apply_filter that drops the last of the filtered columns and
\* of the schema's fields
apply_filter_run_drop_last(batch, bitmask, schema, scalarOk, kernelOk) ==
    LET arrow == to_arrow(bitmask, scalarOk) IN
    IF IsErr(arrow) THEN [res |-> arrow, kernel |-> << >>]
    ELSE
      LET predicate == cast_array(arrow.val) IN
      IF IsErr(predicate) THEN [res |-> predicate, kernel |-> << >>]
      ELSE
        LET filtered_arrays ==
              filter_columns(batch, predicate.val, num_columns(batch), scalarOk, kernelOk)
        IN IF IsErr(filtered_arrays.res) THEN filtered_arrays
           ELSE [res |-> Ok(ColumnarBatch(ButLast(filtered_arrays.res.val),
                                          ButLast(schema))),
                 kernel |-> filtered_arrays.kernel]

\* apply_filter(batch, bitmask, schema) with the kernel calls it made
apply_filter_run(batch, bitmask, schema, scalarOk, kernelOk) ==
    LET arrow == to_arrow(bitmask, scalarOk) IN
    IF IsErr(arrow) THEN [res |-> arrow, kernel |-> << >>]
    ELSE
      LET predicate == cast_array(arrow.val) IN
      IF IsErr(predicate) THEN [res |-> predicate, kernel |-> << >>]
      ELSE
        LET filtered_arrays ==
              filter_columns(batch, predicate.val, num_columns(batch), scalarOk, kernelOk)
        IN IF IsErr(filtered_arrays.res) THEN filtered_arrays
           ELSE [res |-> Ok(ColumnarBatch(filtered_arrays.res.val, schema)),
                 kernel |-> filtered_arrays.kernel]

apply_filter(batch, bitmask, schema, scalarOk, kernelOk) ==
    apply_filter_run(batch, bitmask, schema, scalarOk, kernelOk).res

\* ---------------------------------------------------------------- state
VARIABLES
    child,        \* FilterExec.child: the node's child plan
    filter_expr,  \* FilterExec.filter_expr: the node's predicate AST
    rewrites,     \* the with_new_children calls made so far, see Rewrite
    lib,          \* what is known of the columnar library, see Questions
    pc,           \* per partition index: where that execute call / stream is
    compiled,     \* per partition index: `expr` held across the await in execute
    result,       \* per partition index: what execute returned
    iter,         \* per partition index: the FilterIter execute returned
    out,          \* per partition index: the results of next(), in call order
    last,         \* per partition index: what the latest next() did
    calls         \* per partition index: calls made on the collaborators

vars == << child, filter_expr, rewrites, lib, pc, compiled, result, iter, out, last, calls >>

NoExpr == [ast |-> Lit("bool", 1), schema |-> << >>]
NoIter == [input |-> ChildStream(<< >>, << >>, "none"), filter_expr |-> NoExpr]
FilterIter(input, expr) == [input |-> input, filter_expr |-> expr]
NoResult == [tag |-> "Pending"]
\* the execution contexts a caller may pass to execute
Contexts == { "ctx1", "ctx2" }
\* calls: the context execute was called with, the calls made on that
\* context, compile_expression calls, the context and partition index of
\* every child.execute call, what it returned, child next() calls, evaluate
\* calls
NoCalls ==
    [ctx |-> "none", on_ctx |-> 0, compile |-> 0, child_execute |-> << >>,
     child_returned |-> NoResult, child_next |-> 0, evaluate |-> 0]
ChildCall(ctx, partition_index) == [ctx |-> ctx, partition_index |-> partition_index]
\* last: in the latest next(), the child's result, the predicate's value,
\* apply_filter's result, the kernel calls as <<column length, mask length>>,
\* and the numbers of child pulls and of evaluations
NoLast ==
    [child |-> NoResult, bools |-> NoResult, filtered |-> NoResult,
     kernel |-> << >>, pulls |-> 0, evals |-> 0]

\* FilterExec::new
FilterExec(c, e) == [child |-> c, filter_expr |-> e]
\* the node that is executed
this == FilterExec(child, filter_expr)

\* FilterExec::schema: the child's schema
FilterExec_schema(node) == node.child.schema
\* FilterExec::output_partitioning: the child's partitioning
FilterExec_output_partitioning(node) == node.child.partitioning
\* FilterExec::children: the one child
FilterExec_children(node) == << node.child >>
\* a variant of FilterIter::schema that returns the schema of the wider plan
FilterIter_schema_fixed(it) == ChildSchema
\* FilterIter::schema: the child stream's schema
FilterIter_schema(it) == it.input.schema

Init ==
    /\ child \in ChildPlans
    /\ filter_expr \in Predicates
    /\ rewrites = << >>
    /\ lib = [q \in Questions |-> "open"]
    /\ pc = [p \in PartIdx |-> "idle"]
    /\ compiled = [p \in PartIdx |-> NoExpr]
    /\ result = [p \in PartIdx |-> NoResult]
    /\ iter = [p \in PartIdx |-> NoIter]
    /\ out = [p \in PartIdx |-> << >>]
    /\ last = [p \in PartIdx |-> NoLast]
    /\ calls = [p \in PartIdx |-> NoCalls]

\* ------------------------------------------------------ FilterExec::execute
\* a variant of execute_begin that calls the child's execute first and
\* compiles afterwards
execute_begin_child_first(p) ==
    /\ pc[p] = "idle"
    /\ \E ctx \in Contexts :
       LET expr == compile_expression(filter_expr, FilterExec_schema(this)) IN
       /\ calls' = [calls EXCEPT ![p].ctx = ctx, ![p].compile = @ + 1,
                                 ![p].child_execute = Append(@, ChildCall(ctx, p))]
       /\ IF IsErr(expr)
          THEN /\ pc' = [pc EXCEPT ![p] = "failed"]
               /\ result' = [result EXCEPT ![p] = expr]
               /\ UNCHANGED compiled
          ELSE /\ pc' = [pc EXCEPT ![p] = "awaitChild"]
               /\ compiled' = [compiled EXCEPT ![p] = expr.val]
               /\ UNCHANGED result
    /\ UNCHANGED << child, filter_expr, rewrites, lib, iter, out, last >>

\* a variant of execute_begin that always executes the child's first
\* partition, and asks the context for its settings before it does
execute_begin_first_partition(p) ==
    /\ pc[p] = "idle"
    /\ \E ctx \in Contexts :
       LET expr == compile_expression(filter_expr, FilterExec_schema(this)) IN
       IF IsErr(expr)
       THEN /\ pc' = [pc EXCEPT ![p] = "failed"]
            /\ result' = [result EXCEPT ![p] = expr]
            /\ calls' = [calls EXCEPT ![p].ctx = ctx, ![p].compile = @ + 1]
            /\ UNCHANGED compiled
       ELSE /\ pc' = [pc EXCEPT ![p] = "awaitChild"]
            /\ compiled' = [compiled EXCEPT ![p] = expr.val]
            /\ calls' = [calls EXCEPT ![p].ctx = ctx, ![p].compile = @ + 1,
                                      ![p].on_ctx = @ + 1,
                                      ![p].child_execute = Append(@, ChildCall(ctx, 0))]
            /\ UNCHANGED result
    /\ UNCHANGED << child, filter_expr, rewrites, lib, iter, out, last >>

\* execute up to its await: compile the predicate against the node's schema,
\* then call the child's execute for the same partition index
execute_begin(p) ==
    /\ pc[p] = "idle"
    /\ \E ctx \in Contexts :
       LET expr == compile_expression(filter_expr, FilterExec_schema(this)) IN
       IF IsErr(expr)
       THEN /\ pc' = [pc EXCEPT ![p] = "failed"]
            /\ result' = [result EXCEPT ![p] = expr]
            /\ calls' = [calls EXCEPT ![p].ctx = ctx, ![p].compile = @ + 1]
            /\ UNCHANGED compiled
       ELSE /\ pc' = [pc EXCEPT ![p] = "awaitChild"]
            /\ compiled' = [compiled EXCEPT ![p] = expr.val]
            /\ calls' = [calls EXCEPT ![p].ctx = ctx, ![p].compile = @ + 1,
                                      ![p].child_execute = Append(@, ChildCall(ctx, p))]
            /\ UNCHANGED result
    /\ UNCHANGED << child, filter_expr, rewrites, lib, iter, out, last >>

\* a variant of execute_resume that pulls the first batch from the child
\* stream before it returns the FilterIter
execute_resume_eager(p) ==
    /\ pc[p] = "awaitChild"
    /\ \E x \in child_execute(child, p) :
         IF IsErr(x)
         THEN /\ calls' = [calls EXCEPT ![p].child_returned = x]
              /\ pc' = [pc EXCEPT ![p] = "failed"]
              /\ result' = [result EXCEPT ![p] = x]
              /\ UNCHANGED iter
         ELSE \E first \in child_next(x.val) :
              /\ calls' = [calls EXCEPT ![p].child_returned = x,
                                        ![p].child_next = @ + 1]
              /\ pc' = [pc EXCEPT ![p] = "streaming"]
              /\ result' = [result EXCEPT ![p] = Ok("stream")]
              /\ iter' = [iter EXCEPT ![p] =
                             FilterIter(child_after_next(x.val, first), compiled[p])]
    /\ UNCHANGED << child, filter_expr, rewrites, lib, compiled, out, last >>

\* a variant of execute_resume that answers an error of the child's execute
\* with a stream that has already ended
execute_resume_unchecked(p) ==
    /\ pc[p] = "awaitChild"
    /\ \E x \in child_execute(child, p) :
         /\ calls' = [calls EXCEPT ![p].child_returned = x]
         /\ pc' = [pc EXCEPT ![p] = "streaming"]
         /\ result' = [result EXCEPT ![p] = Ok("stream")]
         /\ iter' = [iter EXCEPT ![p] =
                        FilterIter(IF IsErr(x)
                                   THEN ChildStream(child.schema, << >>, "ended")
                                   ELSE x.val,
                                   compiled[p])]
    /\ UNCHANGED << child, filter_expr, rewrites, lib, compiled, out, last >>

\* execute after its await: the child's execute has finished with x
execute_resume(p) ==
    /\ pc[p] = "awaitChild"
    /\ \E x \in child_execute(child, p) :
         /\ calls' = [calls EXCEPT ![p].child_returned = x]
         /\ IF IsErr(x)
            THEN /\ pc' = [pc EXCEPT ![p] = "failed"]
                 /\ result' = [result EXCEPT ![p] = x]
                 /\ UNCHANGED iter
            ELSE /\ pc' = [pc EXCEPT ![p] = "streaming"]
                 /\ result' = [result EXCEPT ![p] = Ok("stream")]
                 /\ iter' = [iter EXCEPT ![p] = FilterIter(x.val, compiled[p])]
    /\ UNCHANGED << child, filter_expr, rewrites, lib, compiled, out, last >>

\* -------------------------------------------------------- FilterIter::next
\* what one next() call did: the result returned, the child's result, the
\* child stream afterwards, the predicate's value, apply_filter's result, the
\* kernel calls made, the number of child pulls and of predicate evaluations,
\* and what is known of the library afterwards
Step(res, pulled, input, bools, filtered, kernel, evals, known) ==
    [res |-> res, child |-> pulled, input |-> input, bools |-> bools,
     filtered |-> filtered, kernel |-> kernel, pulls |-> 1, evals |-> evals,
     lib |-> known]

\* the match in next(), given the result `input` of the child's next(): the
\* ways the call can go on from there
next_match(it, input, known) ==
    LET after == child_after_next(it.input, input) IN
    IF IsErr(input)
    THEN { Step(input, input, after, NoResult, NoResult, << >>, 0, known) }
    ELSE IF input.val.opt = "None"
    THEN { Step(Ok(None), input, after, NoResult, NoResult, << >>, 0, known) }
    ELSE
      LET bools == evaluate(it.filter_expr, input.val.batch) IN
      IF IsErr(bools)
      THEN { Step(bools, input, after, bools, NoResult, << >>, 1, known) }
      ELSE
        LET q == Question(bools.val, input.val.batch) IN
        { LET run == apply_filter_run(input.val.batch, bools.val,
                                      FilterIter_schema(it), yes, yes)
          IN Step(IF IsErr(run.res) THEN run.res ELSE Ok(Some(run.res.val)),
                  input, after, bools, run.res, run.kernel, 1, Answered(known, q, yes))
          : yes \in Answers(known, q) }

\* variants of next(): one that takes a filtered batch of zero rows for the
\* end of the stream, one that answers the child's end of stream with a batch
\* of zero rows, one that fails when it is called again after the child has
\* ended, one that turns an error of the child into the end of the stream
ZeroRows(r) == IsOk(r) /\ r.val.opt = "Some" /\ num_rows(r.val.batch) = 0
EmptyBatch == BatchOfRows(<< >>)

next_outcomes_skip_empty(it, known) ==
    { IF ZeroRows(o.res) THEN [o EXCEPT !.res = Ok(None)] ELSE o
      : o \in UNION { next_match(it, input, known) : input \in child_next(it.input) } }

next_outcomes_batch_at_end(it, known) ==
    { IF o.child = Ok(None) THEN [o EXCEPT !.res = Ok(Some(EmptyBatch))] ELSE o
      : o \in UNION { next_match(it, input, known) : input \in child_next(it.input) } }

next_outcomes_fail_after_end(it, known) ==
    { IF it.input.state = "ended" THEN [o EXCEPT !.res = Err("exhausted")] ELSE o
      : o \in UNION { next_match(it, input, known) : input \in child_next(it.input) } }

next_outcomes_swallow_error(it, known) ==
    { IF IsErr(o.child) THEN [o EXCEPT !.res = Ok(None)] ELSE o
      : o \in UNION { next_match(it, input, known) : input \in child_next(it.input) } }

\* a variant of next() that does not call the child again once the child has
\* ended
next_outcomes_fused(it, known) ==
    IF it.input.state = "ended"
    THEN { [Step(Ok(None), Ok(None), it.input, NoResult, NoResult, << >>, 0, known)
               EXCEPT !.pulls = 0] }
    ELSE UNION { next_match(it, input, known) : input \in child_next(it.input) }

\* every way a next() call on `it` can go
next_outcomes(it, known) ==
    UNION { next_match(it, input, known) : input \in child_next(it.input) }

\* a variant of next() that compiles the node's predicate again for every
\* batch the child yields
FilterIter_next_recompile(p) ==
    /\ pc[p] = "streaming"
    /\ Len(out[p]) < MaxCalls
    /\ \E o \in next_outcomes(iter[p], lib) :
         /\ lib' = o.lib
         /\ iter' = [iter EXCEPT ![p].input = o.input]
         /\ out' = [out EXCEPT ![p] = Append(@, o.res)]
         /\ last' = [last EXCEPT ![p] =
                        [child |-> o.child, bools |-> o.bools, filtered |-> o.filtered,
                         kernel |-> o.kernel, pulls |-> o.pulls, evals |-> o.evals]]
         /\ calls' = [calls EXCEPT ![p].child_next = @ + o.pulls,
                                   ![p].evaluate = @ + o.evals,
                                   ![p].compile = @ + o.evals]
    /\ UNCHANGED << child, filter_expr, rewrites, pc, compiled, result >>

\* a variant of next() in which the streams of one node pull from one child
\* stream, that of the partition that was executed first
FilterIter_next_shared(p) ==
    /\ pc[p] = "streaming"
    /\ Len(out[p]) < MaxCalls
    /\ LET first == CHOOSE q \in PartIdx :
                        pc[q] = "streaming" /\ \A r \in PartIdx : pc[r] = "streaming" => q <= r
       IN \E o \in next_outcomes(iter[first], lib) :
         /\ lib' = o.lib
         /\ iter' = [iter EXCEPT ![first].input = o.input]
         /\ out' = [out EXCEPT ![p] = Append(@, o.res)]
         /\ last' = [last EXCEPT ![p] =
                        [child |-> o.child, bools |-> o.bools, filtered |-> o.filtered,
                         kernel |-> o.kernel, pulls |-> o.pulls, evals |-> o.evals]]
         /\ calls' = [calls EXCEPT ![p].child_next = @ + o.pulls,
                                   ![p].evaluate = @ + o.evals]
    /\ UNCHANGED << child, filter_expr, rewrites, pc, compiled, result >>

FilterIter_next(p) ==
    /\ pc[p] = "streaming"
    /\ Len(out[p]) < MaxCalls
    /\ \E o \in next_outcomes(iter[p], lib) :
         /\ lib' = o.lib
         /\ iter' = [iter EXCEPT ![p].input = o.input]
         /\ out' = [out EXCEPT ![p] = Append(@, o.res)]
         /\ last' = [last EXCEPT ![p] =
                        [child |-> o.child, bools |-> o.bools, filtered |-> o.filtered,
                         kernel |-> o.kernel, pulls |-> o.pulls, evals |-> o.evals]]
         /\ calls' = [calls EXCEPT ![p].child_next = @ + o.pulls,
                                   ![p].evaluate = @ + o.evals]
    /\ UNCHANGED << child, filter_expr, rewrites, pc, compiled, result >>

\* ------------------------------------------- FilterExec::with_new_children
\* a failed assertion
Panic == [tag |-> "Panic"]

\* a variant of with_new_children that takes the first of the children it is
\* given and keeps the node's own child when it is given none
with_new_children_lenient(node, new_children) ==
    Ok(FilterExec(IF Len(new_children) = 0 THEN node.child ELSE new_children[1],
                  node.filter_expr))

\* a variant of with_new_children that keeps the node's child
with_new_children_keep_child(node, new_children) ==
    IF Len(new_children) # 1 THEN Panic
    ELSE Ok(FilterExec(node.child, node.filter_expr))

\* with_new_children: asserts that there is one new child, and builds a node
\* of the node's predicate and that child
with_new_children(node, new_children) ==
    IF Len(new_children) # 1 THEN Panic
    ELSE Ok(FilterExec(new_children[1], node.filter_expr))

\* one with_new_children call: the node it was called on, the children it
\* was given and what it returned
Rewrite(node, new_children, returned) ==
    [node |-> node, new_children |-> new_children, returned |-> returned]

\* the nodes there are: the executed one and those the rewrites returned
Nodes == { this } \cup { rewrites[i].returned.val :
                             i \in { j \in 1..Len(rewrites) : IsOk(rewrites[j].returned) } }

\* a plan-optimization pass calls with_new_children on one of the nodes
rewrite ==
    /\ Len(rewrites) < MaxRewrites
    /\ \E node \in Nodes, new_children \in SeqsUpTo(ChildPlans, 2) :
         rewrites' = Append(rewrites,
                            Rewrite(node, new_children,
                                    with_new_children(node, new_children)))
    /\ UNCHANGED << child, filter_expr, lib, pc, compiled, result, iter, out, last,
                    calls >>

\* ------------------------------------------------------------ specification
\* one caller executes one partition index of the node and pulls its stream
NoneStarted == \A q \in PartIdx : pc[q] = "idle"

Next ==
    \E p \in PartIdx :
        \/ NoneStarted /\ execute_begin(p)
        \/ execute_resume(p)
        \/ FilterIter_next(p)

Spec == Init /\ [][Next]_vars

\* several callers execute partition indexes of the one node, all with the
\* same context, and pull the streams in any interleaving of the steps
RECURSIVE SumLen(_, _)
SumLen(f, S) ==
    IF S = { } THEN 0
    ELSE LET x == CHOOSE y \in S : TRUE IN Len(f[x]) + SumLen(f, S \ { x })

InitConc ==
    /\ Init
    /\ filter_expr \in { Col("flag"), DivGt("id", 6) }

NextConc ==
    \E p \in PartIdx :
        \/ execute_begin(p) /\ \A q \in PartIdx : calls'[q].ctx \in { "none", "ctx1" }
        \/ execute_resume(p)
        \/ FilterIter_next(p) /\ SumLen(out, PartIdx) < MaxCalls

SpecConc == InitConc /\ [][NextConc]_vars

\* plan-optimization passes rewrite the node before anything is executed
NextRewrite == rewrite
SpecRewrite == Init /\ [][NextRewrite]_vars

\* ------------------------------------------------------------------ claims
CompileFails == IsErr(compile_expression(filter_expr, FilterExec_schema(this)))

\* C1: when the predicate does not compile against the node's schema, execute
\* returns the compile error, and in that call the child's execute is never
\* invoked and no batch is pulled; in every call the child's execute is
\* invoked only after a compilation that succeeded.
C1_CompileErrorBeforeChild ==
    \A p \in PartIdx :
        /\ (CompileFails /\ pc[p] # "idle") =>
              /\ pc[p] = "failed"
              /\ result[p] = Err("compile")
              /\ calls[p].child_execute = << >>
              /\ calls[p].child_returned = NoResult
              /\ calls[p].child_next = 0
              /\ iter[p] = NoIter
        /\ calls[p].child_execute # << >> =>
              /\ calls[p].compile = 1
              /\ ~ CompileFails

C1_Witness ==
    \E p \in PartIdx :
        /\ filter_expr = Col("nope")
        /\ result[p] = Err("compile")
        /\ calls[p].compile = 1

\* C2: execute is lazy: until the first next() on the returned stream the
\* child stream's next() has been called zero times, the predicate has been
\* evaluated zero times and the child stream has yielded nothing; the number
\* of child pulls and of evaluations changes only in a step that is a next()
\* call on the returned stream.
C2_Untouched ==
    \A p \in PartIdx :
        out[p] = << >> =>
            /\ calls[p].child_next = 0
            /\ calls[p].evaluate = 0
            /\ (pc[p] = "streaming" => iter[p].input = ChildStream(child.schema, << >>, "open"))

C2_OnlyInNext ==
    \A p \in PartIdx :
        (calls'[p].child_next # calls[p].child_next
            \/ calls'[p].evaluate # calls[p].evaluate)
        => /\ pc[p] = "streaming"
           /\ Len(out'[p]) = Len(out[p]) + 1

C2_ExecuteIsLazy == [] C2_Untouched /\ [][C2_OnlyInNext]_vars

C2_Witness ==
    \E p \in PartIdx :
        /\ pc[p] = "streaming"
        /\ result[p] = Ok("stream")
        /\ out[p] = << >>

\* ---- what the claims below speak of
Latest(p) == out[p][Len(out[p])]
IsBatch(r) == IsOk(r) /\ r.val.opt = "Some"
IsEos(r) == IsOk(r) /\ r.val.opt = "None"
Pulled(p) == IsOk(last[p].child) /\ last[p].child.val.opt = "Some"

\* a Columnar boolean value with one element per row of batch
ProperMask(v, batch) ==
    /\ v.kind = "Columnar"
    /\ v.array.type = "bool"
    /\ Len(v.array.bools) = num_rows(batch)
BoolTyped(v) ==
    IF v.kind = "Columnar" THEN v.array.type = "bool" ELSE v.value.type = "bool"

\* the elements of vals at the positions where mask is true, in their order
TruePos(mask) == { i \in 1..Len(mask) : mask[i] }
Nth(S, j) == CHOOSE i \in S : Cardinality({ x \in S : x < i }) = j - 1
Pick(vals, mask) ==
    [j \in 1..Cardinality(TruePos(mask)) |-> vals[Nth(TruePos(mask), j)]]
KeepRows(batch, mask) ==
    ColumnarBatch([i \in 1..Len(batch.cols) |->
                      Columnar(Array(batch.cols[i].array.type,
                                     Pick(Vals(batch.cols[i].array), mask)))],
                  batch.schema)

\* the batches that are a filtering of batch by expr: the rows its mask
\* keeps, or for a mask of another shape whatever apply_filter returns
Filterings(expr, batch) ==
    LET bools == evaluate(expr, batch) IN
    IF IsErr(bools) THEN { }
    ELSE IF ProperMask(bools.val, batch)
    THEN { KeepRows(batch, bools.val.array.bools) }
    ELSE { r.val : r \in { x \in { apply_filter(batch, bools.val, batch.schema, yes, yes)
                                   : yes \in BOOLEAN } : IsOk(x) } }

\* C3: while no next() has returned an error, the k-th result of the filter
\* stream is a batch, the filtering of the k-th batch the child yielded (a
\* batch of zero rows included), for every batch the child has yielded, and
\* every result after those is end-of-stream: nothing is reordered, dropped,
\* merged or duplicated.
C3_BatchForBatch ==
    \A p \in PartIdx :
        (pc[p] = "streaming" /\ \A k \in 1..Len(out[p]) : ~ IsErr(out[p][k])) =>
            LET ys == iter[p].input.yielded IN
            /\ Len(ys) <= Len(out[p])
            /\ \A k \in 1..Len(out[p]) :
                 IF k <= Len(ys)
                 THEN /\ IsBatch(out[p][k])
                      /\ out[p][k].val.batch \in Filterings(iter[p].filter_expr, ys[k])
                 ELSE IsEos(out[p][k])

C3_Witness ==
    \E p \in PartIdx :
        /\ filter_expr = Gt("id", 2)
        /\ iter[p].input = ChildStream(ChildSchema, << BatchOfRows(<< <<0, TRUE>>, <<0, TRUE>> >>),
                                          BatchOfRows(<< <<3, FALSE>>, <<3, FALSE>> >>) >>,
                                       "ended")
        /\ out[p] = << Ok(Some(BatchOfRows(<< >>))),
                       Ok(Some(BatchOfRows(<< <<3, FALSE>>, <<3, FALSE>> >>))),
                       Ok(None) >>

\* C4: when the predicate gives a boolean mask M with one element per row of
\* the input batch B, the batch next() returns has, for every column index i,
\* exactly the elements of B's column i at the positions where M is true, in
\* their order; every column has the number of true entries of M as its
\* length, which is at most rowcount(B).
C4_SameMaskEveryColumn ==
    \A p \in PartIdx :
        (out[p] # << >> /\ Pulled(p) /\ IsOk(last[p].bools)
           /\ ProperMask(last[p].bools.val, last[p].child.val.batch)
           /\ IsBatch(Latest(p))) =>
            LET B == last[p].child.val.batch
                M == last[p].bools.val.array.bools
                R == Latest(p).val.batch
            IN /\ Len(R.cols) = Len(B.cols)
               /\ Cardinality(TruePos(M)) <= num_rows(B)
               /\ \A i \in 1..Len(B.cols) :
                    /\ R.cols[i].kind = "Columnar"
                    /\ R.cols[i].array.type = B.cols[i].array.type
                    /\ Vals(R.cols[i].array) = Pick(Vals(B.cols[i].array), M)
                    /\ Len(Vals(R.cols[i].array)) = Cardinality(TruePos(M))

C4_Witness ==
    \E p \in PartIdx :
        /\ filter_expr = Col("flag")
        /\ out[p] # << >>
        /\ last[p].child = Ok(Some(BatchOfRows(<< <<0, TRUE>>, <<3, FALSE>> >>)))
        /\ Latest(p) = Ok(Some(BatchOfRows(<< <<0, TRUE>> >>)))

\* C5: when the child stream's next() returns end-of-stream, the filter
\* stream's next() returns end-of-stream in that same call, without an
\* evaluation of the predicate and without a batch; a child that yields no
\* batch and then ends gives a filter stream whose every result is
\* end-of-stream.
C5_EndOfStream ==
    \A p \in PartIdx :
        out[p] # << >> =>
            /\ last[p].child = Ok(None) =>
                  /\ Latest(p) = Ok(None)
                  /\ last[p].evals = 0
                  /\ last[p].bools = NoResult
                  /\ last[p].filtered = NoResult
                  /\ last[p].kernel = << >>
            /\ iter[p].input = ChildStream(child.schema, << >>, "ended") =>
                  \A k \in 1..Len(out[p]) : out[p][k] = Ok(None)

C5_Witness ==
    \E p \in PartIdx :
        /\ iter[p].input = ChildStream(child.schema, << >>, "ended")
        /\ out[p] = << Ok(None) >>

\* C6: once next() has returned end-of-stream, every later next() on that
\* stream returns end-of-stream.
C6_EndIsFinal ==
    \A p \in PartIdx :
        \A j \in 1..Len(out[p]) : \A k \in 1..Len(out[p]) :
            (j < k /\ IsEos(out[p][j])) => IsEos(out[p][k])

C6_Witness ==
    \E p \in PartIdx :
        /\ Len(out[p]) = MaxCalls
        /\ IsBatch(out[p][1])
        /\ \A k \in 2..Len(out[p]) : IsEos(out[p][k])

\* C7: once next() has returned an error, no later next() on that stream
\* returns a batch.
C7_PoisonedAfterError ==
    \A p \in PartIdx :
        \A j \in 1..Len(out[p]) : \A k \in 1..Len(out[p]) :
            (j < k /\ IsErr(out[p][j])) => ~ IsBatch(out[p][k])

\* C8: no recovery: an error of the child's execute is the result of execute,
\* which returns no stream and calls the child's execute once; an error of the
\* child's next(), of the evaluation, of to_arrow, of the cast or of the kernel
\* is the result of that same next() call, and the step that failed ran once.
C8_NoRecovery ==
    \A p \in PartIdx :
        /\ IsErr(calls[p].child_returned) =>
              /\ result[p] = calls[p].child_returned
              /\ pc[p] = "failed"
              /\ iter[p] = NoIter
              /\ Len(calls[p].child_execute) = 1
        /\ out[p] # << >> =>
              /\ IsErr(last[p].child) =>
                    Latest(p) = last[p].child /\ last[p].pulls = 1 /\ last[p].evals = 0
              /\ IsErr(last[p].bools) =>
                    Latest(p) = last[p].bools /\ last[p].pulls = 1 /\ last[p].evals = 1
              /\ IsErr(last[p].filtered) =>
                    /\ Latest(p) = last[p].filtered
                    /\ last[p].pulls = 1 /\ last[p].evals = 1
                    /\ Len(last[p].kernel) = (IF last[p].filtered.kind = "kernel" THEN 1 ELSE 0)

C8_Witness ==
    \E p \in PartIdx :
        /\ Len(out[p]) = 2
        /\ IsBatch(out[p][1])
        /\ last[p].child = Err("upstream")
        /\ Latest(p) = Err("upstream")

\* C9: when the predicate evaluates to a value that is not boolean-typed, the
\* next() call that pulled the batch returns an error and no batch, no column
\* has been filtered, and the batch the child yielded is as it was.
C9_NonBooleanMask ==
    \A p \in PartIdx :
        (out[p] # << >> /\ IsOk(last[p].bools) /\ ~ BoolTyped(last[p].bools.val)) =>
            /\ IsErr(Latest(p))
            /\ IsErr(last[p].filtered)
            /\ last[p].kernel = << >>
            /\ iter[p].input.yielded[Len(iter[p].input.yielded)] = last[p].child.val.batch

C9_Witness ==
    \E p \in PartIdx :
        /\ filter_expr = Col("id")
        /\ out[p] # << >>
        /\ last[p].child = Ok(Some(BatchOfRows(<< <<0, TRUE>>, <<3, FALSE>> >>)))
        /\ Latest(p) = Err("cast")

\* the node's predicate is one of the opaque expressions, whose value is a
\* boolean array of another length than the batch
InitOpaque == Init /\ filter_expr \in { UdfShort("flag"), UdfLong("flag") }
SpecOpaque == InitOpaque /\ [][Next]_vars

\* C10: when the predicate evaluates to a value that is not a Columnar boolean
\* array with one element per row of the batch, next() returns an error, and
\* the kernel is never called with a mask whose length is not the column's.
C10_ShapeChecked ==
    \A p \in PartIdx :
        out[p] # << >> =>
            /\ \A c \in 1..Len(last[p].kernel) : last[p].kernel[c][1] = last[p].kernel[c][2]
            /\ (Pulled(p) /\ IsOk(last[p].bools)
                  /\ ~ ProperMask(last[p].bools.val, last[p].child.val.batch))
               => IsErr(Latest(p))

\* the partition indexes that are out of range for the node's partitioning
OutOfRange(p) == p \notin 0 .. (FilterExec_output_partitioning(this) - 1)
Returned(p) == pc[p] \in { "failed", "streaming" }

\* C11 as stated: an execute call with a partition index that is out of range
\* for the node's output partitioning fails with a partition-range error and
\* returns no stream.
C11_AlwaysPartitionError ==
    \A p \in PartIdx :
        (OutOfRange(p) /\ Returned(p)) =>
            /\ result[p] = Err("partition")
            /\ iter[p] = NoIter

\* C11: execute makes no range check of its own.  A call with a partition
\* index that is out of range for the node's output partitioning fails and
\* returns no stream: with the compile error, and without a call of the
\* child's execute, when the predicate does not compile; otherwise with the
\* error the child's execute returned for that index, a partition-range error.
C11_OutOfRangeFails ==
    \A p \in PartIdx :
        (OutOfRange(p) /\ Returned(p)) =>
            /\ pc[p] = "failed"
            /\ iter[p] = NoIter
            /\ out[p] = << >>
            /\ IF CompileFails
               THEN result[p] = Err("compile") /\ calls[p].child_execute = << >>
               ELSE /\ result[p] = Err("partition")
                    /\ result[p] = calls[p].child_returned

C11_Witness ==
    \E p \in PartIdx :
        /\ OutOfRange(p)
        /\ p < NumPartitions
        /\ result[p] = Err("partition")
        /\ calls[p].child_execute = << ChildCall(calls[p].ctx, p) >>

\* C12: an execute call whose predicate compiles calls the child's execute
\* once, with the partition index and the context it was itself called with,
\* and makes no call on the context; no execute call calls the child's
\* execute for another partition index or with another context.
C12_ForwardsToChild ==
    \A p \in PartIdx :
        /\ (~ CompileFails /\ pc[p] # "idle") =>
              calls[p].child_execute = << ChildCall(calls[p].ctx, p) >>
        /\ \A i \in 1..Len(calls[p].child_execute) :
              calls[p].child_execute[i] = ChildCall(calls[p].ctx, p)
        /\ calls[p].on_ctx = 0

C12_Witness ==
    \E p \in PartIdx :
        /\ p > 0
        /\ calls[p].ctx = "ctx2"
        /\ pc[p] = "streaming"
        /\ calls[p].child_execute = << ChildCall("ctx2", p) >>

\* what a stream over expr yields when it is pulled alone: the k-th of its
\* results, given the batches ys its child has yielded and the child's state
Alone(expr, s, k) ==
    IF k <= Len(s.yielded)
    THEN LET bools == evaluate(expr, s.yielded[k]) IN
         IF IsErr(bools) THEN bools
         ELSE Ok(Some(KeepRows(s.yielded[k], bools.val.array.bools)))
    ELSE IF s.state = "failed" THEN Err("upstream") ELSE Ok(None)

\* the state of the node and of every other partition's call and stream
Others(p) ==
    << child, filter_expr,
       [q \in PartIdx \ { p } |->
           << pc[q], compiled[q], result[q], iter[q], out[q], last[q], calls[q] >>] >>

\* C13: when several partition indexes of one node are executed and pulled
\* in any interleaving, every stream yields what it yields alone: its k-th
\* result is that of its own child stream's k-th result under the node's
\* predicate, whatever the other partitions did, failures included; a step
\* of one partition's call or stream changes nothing of the node or of
\* another partition's call or stream.
C13_OwnStream ==
    \A p \in PartIdx :
        /\ pc[p] = "streaming" =>
              /\ iter[p].filter_expr = compile_expression(filter_expr, child.schema).val
              /\ (iter[p].input.state = "open" => Len(out[p]) = Len(iter[p].input.yielded))
              /\ Len(out[p]) >= Len(iter[p].input.yielded)
              /\ \A k \in 1..Len(out[p]) :
                    out[p][k] = Alone(iter[p].filter_expr, iter[p].input, k)
        /\ pc[p] # "streaming" => out[p] = << >>

C13_Frame ==
    \A p \in PartIdx :
        << pc[p], compiled[p], result[p], iter[p], out[p], last[p], calls[p] >>
            # << pc'[p], compiled'[p], result'[p], iter'[p], out'[p], last'[p], calls'[p] >>
        => Others(p)' = Others(p)

C13_Isolated == [] C13_OwnStream /\ [][C13_Frame]_vars

C13_Witness ==
    \E p, q \in PartIdx :
        /\ p # q
        /\ Len(out[p]) = 2 /\ IsErr(out[p][1]) /\ IsBatch(out[p][2])
        /\ Len(out[q]) = 2 /\ IsBatch(out[q][1]) /\ IsErr(out[q][2])
        /\ iter[p].input.yielded # iter[q].input.yielded

\* C14: the schema() of the stream that execute returned is the node's
\* schema(), which is the child's schema, in every state of the stream:
\* before the first next(), while it yields batches, after the end of the
\* stream and after an error.
C14_StreamSchema ==
    \A p \in PartIdx :
        pc[p] = "streaming" =>
            /\ FilterIter_schema(iter[p]) = FilterExec_schema(this)
            /\ FilterExec_schema(this) = child.schema

C14_Witness ==
    \E p \in PartIdx :
        /\ pc[p] = "streaming"
        /\ child.schema = FlagSchema
        /\ Len(out[p]) = 3
        /\ IsBatch(out[p][1]) /\ IsErr(out[p][2])
        /\ FilterIter_schema(iter[p]) = FlagSchema

\* C15: every batch that next() returns has the schema of the batch of the
\* child it was computed from, and as many columns: the k-th result, when
\* it is a batch, against the k-th batch the child yielded.
C15_SchemaKept ==
    \A p \in PartIdx :
        /\ \A k \in 1..Len(out[p]) :
              IsBatch(out[p][k]) =>
                  /\ k <= Len(iter[p].input.yielded)
                  /\ out[p][k].val.batch.schema = iter[p].input.yielded[k].schema
                  /\ num_columns(out[p][k].val.batch)
                         = num_columns(iter[p].input.yielded[k])
        /\ (out[p] # << >> /\ IsBatch(Latest(p))) =>
              /\ Pulled(p)
              /\ Latest(p).val.batch.schema = last[p].child.val.batch.schema
              /\ num_columns(Latest(p).val.batch)
                     = num_columns(last[p].child.val.batch)

C15_Witness ==
    \E p \in PartIdx :
        /\ Len(out[p]) = 2
        /\ IsBatch(out[p][1]) /\ out[p][1].val.batch.schema = FlagSchema
        /\ num_columns(out[p][1].val.batch) = 1
        /\ num_rows(iter[p].input.yielded[1]) = 2
        /\ num_rows(out[p][1].val.batch) = 1
        /\ IsBatch(out[p][2]) /\ num_rows(out[p][2].val.batch) = 0

\* a boolean array mask, one element per row of batch, all of them true
AllTrue(v, batch) ==
    /\ ProperMask(v, batch)
    /\ \A i \in 1..Len(v.array.bools) : v.array.bools[i]

\* C18: when the predicate's mask is true for every row of the batch the
\* child yielded, next() returns a batch equal to that batch: the same
\* schema, the same columns, the same values in the same order.
C18_AllTrueIsIdentity ==
    \A p \in PartIdx :
        (out[p] # << >> /\ Pulled(p) /\ IsOk(last[p].bools)
            /\ AllTrue(last[p].bools.val, last[p].child.val.batch))
        => Latest(p) = Ok(Some(last[p].child.val.batch))

C18_Witness ==
    \E p \in PartIdx :
        /\ out[p] # << >> /\ Pulled(p) /\ IsOk(last[p].bools)
        /\ AllTrue(last[p].bools.val, last[p].child.val.batch)
        /\ num_rows(last[p].child.val.batch) = 2
        /\ num_columns(last[p].child.val.batch) = 2
        /\ Latest(p) = Ok(Some(BatchOfRows(<< <<0, TRUE>>, <<0, TRUE>> >>)))

\* C16: with_new_children given one child returns a new node with the
\* predicate of the node it was called on and with that child as its only
\* child; given no child or more than one it fails its assertion and returns
\* no node; a call changes neither the node it was called on nor any node
\* there was before.
C16_EveryRewrite ==
    \A i \in 1..Len(rewrites) :
        LET r == rewrites[i] IN
        IF Len(r.new_children) = 1
        THEN /\ IsOk(r.returned)
             /\ r.returned.val.filter_expr = r.node.filter_expr
             /\ r.returned.val.child = r.new_children[1]
             /\ FilterExec_children(r.returned.val) = r.new_children
        ELSE r.returned = Panic

C16_NodesKept ==
    /\ child' = child
    /\ filter_expr' = filter_expr
    /\ Nodes \subseteq Nodes'
    /\ \A i \in 1..Len(rewrites) : rewrites'[i] = rewrites[i]
    /\ Len(rewrites') > Len(rewrites) =>
          \/ rewrites'[Len(rewrites')].returned = Panic /\ Nodes' = Nodes
          \/ /\ rewrites'[Len(rewrites')].node \in Nodes
             /\ Nodes' = Nodes \cup { rewrites'[Len(rewrites')].returned.val }

C16_NewNodeOnly == [] C16_EveryRewrite /\ [][C16_NodesKept]_vars

C16_Witness ==
    /\ Len(rewrites) = 2
    /\ rewrites[1].returned = Panic
    /\ Len(rewrites[1].new_children) = 2
    /\ IsOk(rewrites[2].returned)
    /\ rewrites[2].node = this
    /\ rewrites[2].returned.val.child # child
    /\ rewrites[2].returned.val.filter_expr = filter_expr

\* C17: for every node, the executed one and every node that a sequence of
\* with_new_children calls has returned, schema() and output_partitioning()
\* are those of the child the node was built with and children() is that one
\* child, whatever the child of the node it was rewritten from.
C17_DelegatesToChild ==
    /\ FilterExec_schema(this) = child.schema
    /\ FilterExec_output_partitioning(this) = child.partitioning
    /\ FilterExec_children(this) = << child >>
    /\ \A i \in 1..Len(rewrites) :
          LET r == rewrites[i] IN
          IsOk(r.returned) =>
              /\ FilterExec_schema(r.returned.val) = r.new_children[1].schema
              /\ FilterExec_output_partitioning(r.returned.val)
                     = r.new_children[1].partitioning
              /\ FilterExec_children(r.returned.val) = << r.new_children[1] >>

C17_Witness ==
    /\ Len(rewrites) = 2
    /\ IsOk(rewrites[1].returned) /\ IsOk(rewrites[2].returned)
    /\ rewrites[1].node = this
    /\ rewrites[2].node = rewrites[1].returned.val
    /\ rewrites[1].returned.val.child # child
    /\ rewrites[2].returned.val.child = child
    /\ FilterExec_schema(rewrites[1].returned.val) # FilterExec_schema(this)
    /\ FilterExec_schema(rewrites[2].returned.val) = FilterExec_schema(this)

\* C19: the predicate is compiled once in every execute call, before the
\* stream exists, and in no next() call; the stream of every execute call
\* holds the expression that this call compiled from the node's predicate,
\* and the node's predicate never changes.
C19_CompiledOnce ==
    \A p \in PartIdx :
        /\ calls[p].compile = IF pc[p] = "idle" THEN 0 ELSE 1
        /\ pc[p] \in { "awaitChild", "streaming" } =>
              /\ ~ CompileFails
              /\ compiled[p] = compile_expression(filter_expr, FilterExec_schema(this)).val
              /\ compiled[p].ast = filter_expr
        /\ pc[p] = "streaming" => iter[p].filter_expr = compiled[p]

C19_NotInNext ==
    /\ filter_expr' = filter_expr
    /\ \A p \in PartIdx :
          /\ calls'[p].compile # calls[p].compile =>
                /\ pc[p] = "idle"
                /\ out'[p] = << >>
                /\ \A q \in PartIdx \ { p } : calls'[q].compile = calls[q].compile
          /\ pc[p] = "streaming" =>
                /\ calls'[p].compile = calls[p].compile
                /\ compiled'[p] = compiled[p]
                /\ iter'[p].filter_expr = iter[p].filter_expr

C19_OncePerExecute == [] C19_CompiledOnce /\ [][C19_NotInNext]_vars

C19_Witness ==
    \E p, q \in PartIdx :
        /\ p # q
        /\ pc[p] = "streaming" /\ pc[q] = "streaming"
        /\ Len(out[p]) = 2 /\ IsBatch(out[p][1]) /\ IsBatch(out[p][2])
        /\ Len(out[q]) = 1
        /\ calls[p].compile = 1 /\ calls[q].compile = 1
        /\ calls[p].evaluate = 2

\* C20: every next() call, in every state of the stream, calls the child
\* stream's next() once and evaluates the predicate at most once, once when
\* the child returned a batch and not otherwise; so the child has been
\* pulled as often as next() has been called and the predicate has been
\* evaluated once for every batch the child yielded; the k-th result is made
\* from the k-th batch of the child or from none, so a batch whose
\* evaluation or filtering failed is not evaluated or returned later.
C20_Counts ==
    \A p \in PartIdx :
        LET ys == iter[p].input.yielded IN
        /\ calls[p].child_next = Len(out[p])
        /\ calls[p].evaluate = Len(ys)
        /\ Len(ys) <= Len(out[p])
        /\ out[p] # << >> =>
              /\ last[p].pulls = 1
              /\ last[p].evals = IF Pulled(p) THEN 1 ELSE 0
              /\ Pulled(p) => last[p].child.val.batch = ys[Len(ys)]
        /\ \A k \in 1..Len(out[p]) :
              IF k <= Len(ys)
              THEN IsBatch(out[p][k]) =>
                       out[p][k].val.batch \in Filterings(iter[p].filter_expr, ys[k])
              ELSE ~ IsBatch(out[p][k])

C20_PerCall ==
    \A p \in PartIdx :
        /\ out'[p] # out[p] =>
              /\ Len(out'[p]) = Len(out[p]) + 1
              /\ calls'[p].child_next = calls[p].child_next + 1
              /\ calls'[p].evaluate = calls[p].evaluate
                     + (IF Len(iter'[p].input.yielded) > Len(iter[p].input.yielded)
                        THEN 1 ELSE 0)
        /\ out'[p] = out[p] =>
              /\ calls'[p].child_next = calls[p].child_next
              /\ calls'[p].evaluate = calls[p].evaluate

C20_OnePullPerCall == [] C20_Counts /\ [][C20_PerCall]_vars

C20_Witness ==
    \E p \in PartIdx :
        /\ Len(out[p]) = 4
        /\ out[p][1] = Err("evaluate")
        /\ IsBatch(out[p][2])
        /\ IsEos(out[p][3]) /\ IsEos(out[p][4])
        /\ calls[p].child_next = 4
        /\ calls[p].evaluate = 2

====
